---- MODULE Spec2Model ----
(***************************************************************************)
(* Model of scripts/validate_new_tree_and_output_rdf.py: the validation of *)
(* an original and a modified OncoTree CSV export and the reconciliation   *)
(* report that main() presents for confirmation.                           *)
(*                                                                         *)
(* A CSV file is a record [fieldnames, rows]; a row is what csv.DictReader *)
(* yields: a function from the column names to the cell strings.  The      *)
(* process ends through sys.exit(code) or an uncaught exception (exit code *)
(* 1); exit_code is RUNNING until then and pc stays at the step that ended *)
(* the process.                                                            *)
(***************************************************************************)
EXTENDS Integers, Sequences, FiniteSets, TLC

----------------------------------------------------------------------------
(* Column names and field lists (module constants of the script).          *)

LABEL == "Primary Concept"
RESOURCE_URI == "Resource URI"
ONCOTREE_CODE == "notation (SKOS)"
SCHEME_URI == "skos:inScheme URI"
STATUS == "Status"
INTERNAL_ID == "clinicalCasesSubset (OncoTree Tumor Type)"
COLOR == "color (OncoTree Tumor Type)"
MAIN_TYPE == "mainType (OncoTree Tumor Type)"
PRECURSORS == "precursors (OncoTree Tumor Type)"
PREFERRED_LABEL == "preferred label (SKOS)"
REVOCATIONS == "revocations (OncoTree Tumor Type)"
PARENT_RESOURCE_URI == "has broader (SKOS) URI"
PARENT_LABEL == "has broader (SKOS)"
PARENT_ONCOTREE_CODE == "parent oncotree code"

EXPECTED_HEADER ==
    << RESOURCE_URI, LABEL, SCHEME_URI, STATUS, INTERNAL_ID, COLOR, MAIN_TYPE,
       ONCOTREE_CODE, PRECURSORS, PREFERRED_LABEL, REVOCATIONS,
       PARENT_RESOURCE_URI, PARENT_LABEL >>

EXPECTED_HEADER_MODIFIED_FILE == EXPECTED_HEADER \o << PARENT_ONCOTREE_CODE >>

REQUIRED_FIELDS ==
    << LABEL, SCHEME_URI, STATUS, INTERNAL_ID, COLOR, MAIN_TYPE, ONCOTREE_CODE,
       PREFERRED_LABEL, PARENT_RESOURCE_URI, PARENT_LABEL >>

TISSUE_NODE_REQUIRED_FIELDS ==
    << RESOURCE_URI, LABEL, SCHEME_URI, STATUS, INTERNAL_ID, ONCOTREE_CODE,
       PREFERRED_LABEL >>

----------------------------------------------------------------------------
(* Python built-ins the script relies on, on strings of characters.        *)

Range(f) == { f[i] : i \in DOMAIN f }

\* the characters that occur in identifiers, in code point order
Alphabet == " 0123456789ABCDEFGHIJKLMNOPQRSTUVWXYZ_abcdefghijklmnopqrstuvwxyz"

ord(c) == CHOOSE i \in 1..Len(Alphabet) : SubSeq(Alphabet, i, i) = c

\* a < b for Python strings: the first differing character decides, a proper
\* prefix is smaller
RECURSIVE str_lt(_, _)
str_lt(a, b) ==
    IF b = "" THEN FALSE
    ELSE IF a = "" THEN TRUE
    ELSE IF Head(a) = Head(b) THEN str_lt(Tail(a), Tail(b))
    ELSE ord(Head(a)) < ord(Head(b))

\* sorted(S) for a set of strings
RECURSIVE sorted(_)
sorted(S) ==
    IF S = {} THEN << >>
    ELSE LET m == CHOOSE x \in S : \A y \in S \ {x} : str_lt(x, y)
         IN  << m >> \o sorted(S \ {m})

\* str.strip(): leading and trailing whitespace removed
RECURSIVE lstrip(_)
lstrip(s) == IF s # "" /\ Head(s) = " " THEN lstrip(Tail(s)) ELSE s

RECURSIVE rstrip(_)
rstrip(s) ==
    IF s # "" /\ SubSeq(s, Len(s), Len(s)) = " "
    THEN rstrip(SubSeq(s, 1, Len(s) - 1))
    ELSE s

strip(s) == rstrip(lstrip(s))

\* str.split(): the maximal runs of non-whitespace characters, in order
RECURSIVE split_from(_, _, _)
split_from(s, word, out) ==
    IF s = "" THEN (IF word = "" THEN out ELSE Append(out, word))
    ELSE IF Head(s) = " "
         THEN split_from(Tail(s), "", IF word = "" THEN out ELSE Append(out, word))
         ELSE split_from(Tail(s), word \o Head(s), out)

split(s) == split_from(s, "", << >>)

\* every order in which a for loop may visit the elements of a set
RECURSIVE iteration_orders(_)
iteration_orders(S) ==
    IF S = {} THEN { << >> }
    ELSE UNION { { << x >> \o t : t \in iteration_orders(S \ {x}) } : x \in S }

\* str.lower() on the letters of the alphabet
UpperCase == "ABCDEFGHIJKLMNOPQRSTUVWXYZ"
LowerCase == "abcdefghijklmnopqrstuvwxyz"

RECURSIVE lower(_)
lower(s) ==
    IF s = "" THEN ""
    ELSE LET c == Head(s)
             up == { i \in 1..Len(UpperCase) : SubSeq(UpperCase, i, i) = c }
         IN  (IF up = {} THEN c
              ELSE LET i == CHOOSE j \in up : TRUE IN SubSeq(LowerCase, i, i))
             \o lower(Tail(s))

\* d[k] = v on a dict d: a later assignment replaces an earlier one
dict_set(d, k, v) == (k :> v) @@ d

EmptyDict == << >>

----------------------------------------------------------------------------
(* The input files.  The runs explored start from a few export pairs, each *)
(* changed in at most MaxEdits places (a cell, a row or a column).         *)

MaxEdits == 2

csv_row(uri, label, id, color, code, puri, plabel) ==
    (RESOURCE_URI :> uri) @@ (LABEL :> label) @@ (SCHEME_URI :> "scheme")
    @@ (STATUS :> "Published") @@ (INTERNAL_ID :> id) @@ (COLOR :> color)
    @@ (MAIN_TYPE :> color) @@ (ONCOTREE_CODE :> code) @@ (PRECURSORS :> "")
    @@ (PREFERRED_LABEL :> label) @@ (REVOCATIONS :> "")
    @@ (PARENT_RESOURCE_URI :> puri) @@ (PARENT_LABEL :> plabel)

with_column(row, col, val) == (col :> val) @@ row

without_column(row, col) == [ c \in (DOMAIN row) \ {col} |-> row[c] ]

RowTissue == csv_row("u0", "Tissue", "ONC000001", "", "TISSUE", "", "")
RowA == csv_row("u1", "La", "X1", "c", "A", "u0", "Tissue")
RowB == csv_row("u2", "Lb", "X2", "c", "B", "u1", "La")
\* a row of the original export that has no resource uri yet
RowB0 == csv_row("", "Lb", "X2", "c", "B", "u1", "La")
\* a new concept under A that supersedes X2
RowN ==
    [ with_column(csv_row("", "Ln", "X3", "c", "N", "u1", "La"),
                  PARENT_ONCOTREE_CODE, "A") EXCEPT ![PRECURSORS] = "X2" ]
\* the row of X2 under a new internal id
RowB3 ==
    with_column(csv_row("", "Lb", "X3", "c", "B", "u1", "La"),
                PARENT_ONCOTREE_CODE, "")

original_export(rows) == [ fieldnames |-> EXPECTED_HEADER, rows |-> rows ]

modified_export(rows) ==
    [ fieldnames |-> EXPECTED_HEADER_MODIFIED_FILE,
      rows |-> [ i \in DOMAIN rows |->
                   IF PARENT_ONCOTREE_CODE \in DOMAIN rows[i] THEN rows[i]
                   ELSE with_column(rows[i], PARENT_ONCOTREE_CODE, "") ] ]

\* nothing changed
BaseUnchanged ==
    [ original |-> original_export(<< RowTissue, RowA, RowB >>),
      modified |-> modified_export(<< RowTissue, RowA, RowB >>) ]

\* X2 removed, X3 added with X2 as its precursor
BaseSuperseded ==
    [ original |-> original_export(<< RowTissue, RowA, RowB >>),
      modified |-> modified_export(<< RowTissue, RowA, RowN >>) ]

\* X2 renumbered to X3 with no other change
BaseRenumbered ==
    [ original |-> original_export(<< RowTissue, RowA, RowB0 >>),
      modified |-> modified_export(<< RowTissue, RowA, RowB3 >>) ]

\* X1 removed, its child X2 moved under the root
BaseReparented ==
    [ original |-> original_export(<< RowTissue, RowA, RowB >>),
      modified |-> modified_export(<< RowTissue,
                       csv_row("u2", "Lb", "X2", "c", "B", "u0", "Tissue") >>) ]

BaseFiles == { BaseUnchanged, BaseSuperseded, BaseRenumbered, BaseReparented }

set_cell(f, r, col, val) == [ file |-> f, op |-> "set", r |-> r, col |-> col, val |-> val ]
delete_row(f, r) == [ file |-> f, op |-> "delete", r |-> r, col |-> "", val |-> "" ]
append_row(f) == [ file |-> f, op |-> "append", r |-> 0, col |-> "", val |-> "" ]
add_column(f, col) == [ file |-> f, op |-> "add_column", r |-> 0, col |-> col, val |-> "" ]
drop_column(f, col) == [ file |-> f, op |-> "drop_column", r |-> 0, col |-> col, val |-> "" ]

Edits ==
    << set_cell("modified", 2, RESOURCE_URI, "u9"),
       set_cell("modified", 3, RESOURCE_URI, ""),
       set_cell("modified", 3, RESOURCE_URI, "u1"),
       set_cell("modified", 3, ONCOTREE_CODE, "B2"),
       set_cell("modified", 3, ONCOTREE_CODE, "A"),
       set_cell("modified", 2, ONCOTREE_CODE, "A2"),
       set_cell("modified", 3, INTERNAL_ID, "X1"),
       set_cell("modified", 3, INTERNAL_ID, "X3"),
       set_cell("modified", 3, INTERNAL_ID, ""),
       set_cell("modified", 3, LABEL, "Lx"),
       set_cell("modified", 2, PREFERRED_LABEL, "Lx"),
       set_cell("modified", 1, PARENT_LABEL, "La"),
       set_cell("modified", 1, PARENT_ONCOTREE_CODE, "A"),
       set_cell("modified", 1, RESOURCE_URI, ""),
       set_cell("modified", 1, INTERNAL_ID, "X0"),
       set_cell("modified", 3, STATUS, "Draft"),
       set_cell("modified", 3, COLOR, ""),
       set_cell("modified", 3, PARENT_ONCOTREE_CODE, "TISSUE"),
       set_cell("modified", 3, PARENT_ONCOTREE_CODE, "ZZZ"),
       set_cell("modified", 3, PARENT_ONCOTREE_CODE, ""),
       set_cell("modified", 3, PARENT_RESOURCE_URI, "u0"),
       set_cell("modified", 3, PARENT_RESOURCE_URI, "u9"),
       set_cell("modified", 3, PARENT_LABEL, "Tissue"),
       set_cell("modified", 3, PRECURSORS, "X8 X9"),
       set_cell("modified", 3, PRECURSORS, "X1"),
       set_cell("modified", 3, PRECURSORS, " "),
       set_cell("modified", 3, REVOCATIONS, "X9"),
       set_cell("modified", 3, REVOCATIONS, " "),
       set_cell("modified", 2, REVOCATIONS, "X2"),
       set_cell("modified", 2, REVOCATIONS, "X9"),
       set_cell("modified", 2, REVOCATIONS, "X3"),
       set_cell("modified", 2, PRECURSORS, "X9"),
       set_cell("original", 3, RESOURCE_URI, ""),
       set_cell("original", 3, RESOURCE_URI, " "),
       set_cell("original", 3, ONCOTREE_CODE, "B0"),
       set_cell("original", 2, LABEL, "Lx"),
       set_cell("original", 3, PARENT_RESOURCE_URI, "u9"),
       set_cell("original", 1, INTERNAL_ID, "X0"),
       set_cell("original", 1, PARENT_RESOURCE_URI, "u1"),
       set_cell("original", 1, RESOURCE_URI, "Tissue"),
       set_cell("original", 2, PARENT_RESOURCE_URI, "Tissue"),
       set_cell("original", 3, STATUS, "Draft"),
       set_cell("original", 3, COLOR, ""),
       add_column("original", PARENT_ONCOTREE_CODE),
       drop_column("original", REVOCATIONS),
       drop_column("modified", PARENT_ONCOTREE_CODE),
       delete_row("original", 3),
       delete_row("modified", 3),
       delete_row("modified", 2),
       append_row("modified") >>

\* the row append_row adds: a new concept X4 under the root
RowAppended ==
    with_column(csv_row("", "Lc", "X4", "c", "C", "u0", "Tissue"),
                PARENT_ONCOTREE_CODE, "")

remove_at(seq, i) == SubSeq(seq, 1, i - 1) \o SubSeq(seq, i + 1, Len(seq))

apply_edit(csv_file, e) ==
    CASE e.op = "set" ->
           IF e.r \in DOMAIN csv_file.rows /\ e.col \in DOMAIN csv_file.rows[e.r]
           THEN [ csv_file EXCEPT !.rows[e.r][e.col] = e.val ]
           ELSE csv_file
      [] e.op = "delete" ->
           IF e.r \in DOMAIN csv_file.rows
           THEN [ csv_file EXCEPT !.rows = remove_at(csv_file.rows, e.r) ]
           ELSE csv_file
      [] e.op = "append" ->
           [ csv_file EXCEPT !.rows =
               Append(csv_file.rows,
                      [ c \in Range(csv_file.fieldnames) |->
                          IF c \in DOMAIN RowAppended THEN RowAppended[c] ELSE "" ]) ]
      [] e.op = "add_column" ->
           IF e.col \in Range(csv_file.fieldnames) THEN csv_file
           ELSE [ fieldnames |-> Append(csv_file.fieldnames, e.col),
                  rows |-> [ i \in DOMAIN csv_file.rows |->
                               with_column(csv_file.rows[i], e.col, "") ] ]
      [] e.op = "drop_column" ->
           [ fieldnames |-> SelectSeq(csv_file.fieldnames, LAMBDA c : c # e.col),
             rows |-> [ i \in DOMAIN csv_file.rows |->
                          without_column(csv_file.rows[i], e.col) ] ]

\* the strictly increasing sequences of at most n indices into Edits
RECURSIVE edit_choices(_)
edit_choices(n) ==
    IF n = 0 THEN { << >> }
    ELSE LET shorter == edit_choices(n - 1)
             longest == { t \in shorter : Len(t) = n - 1 }
             first(t) == IF t = << >> THEN 1 ELSE t[Len(t)] + 1
         IN  shorter \cup
             UNION { { Append(t, j) : j \in first(t)..Len(Edits) } : t \in longest }

RECURSIVE apply_edits(_, _, _)
apply_edits(csv_file, f, choice) ==
    IF choice = << >> THEN csv_file
    ELSE LET e == Edits[Head(choice)]
         IN  apply_edits(IF e.file = f THEN apply_edit(csv_file, e) ELSE csv_file,
                         f, Tail(choice))

----------------------------------------------------------------------------
(* State.                                                                  *)

VARIABLES
    pc,                 \* the step of main() that runs next, or that ended the process
    exit_code,          \* RUNNING, or the status the process ended with
    error,              \* what ended the process: its kind, and the row number,
                        \* column and internal id of the record it ended at
    argv,               \* the command line, as get_args sees it
    original_file,      \* contents of the file given with --original-file
    modified_file,      \* contents of the file given with --modified-file
    stdout,             \* the lines printed so far
    label_mismatch_errors,  \* the lists of the last validate_csv_file call
    parent_invalid_errors,
    original_oncotree,
    modified_oncotree,
    internal_id_to_oncocodes,
    precursor_id_to_internal_ids,
    revocation_id_to_internal_ids,
    original_resource_uri_to_internal_ids,
    modified_resource_uri_to_internal_ids,
    oncotree_codes_to_internal_ids,
    removed_internal_ids,
    new_internal_ids,
    in_both_internal_ids,
    code_change_messages,
    parent_change_messages,
    answer              \* what the curator typed at the prompt

files == << argv, original_file, modified_file >>

validation == << label_mismatch_errors, parent_invalid_errors >>

oncotrees == << original_oncotree, modified_oncotree >>

indexes ==
    << precursor_id_to_internal_ids, revocation_id_to_internal_ids,
       original_resource_uri_to_internal_ids, modified_resource_uri_to_internal_ids,
       oncotree_codes_to_internal_ids >>

id_sets == << removed_internal_ids, new_internal_ids, in_both_internal_ids >>

change_messages == << code_change_messages, parent_change_messages >>

vars ==
    << pc, exit_code, error, files, stdout, validation, oncotrees,
       internal_id_to_oncocodes, indexes, id_sets, change_messages, answer >>

RUNNING == 0 - 1

NoError == [ kind |-> "", row |-> 0, field |-> "", id |-> "" ]

Error(kind, row, field, id) == [ kind |-> kind, row |-> row, field |-> field, id |-> id ]

\* the command lines explored
ArgvCases == { "both_files", "option_missing", "empty_path",
               "original_not_a_file", "modified_not_a_file" }

Init ==
    /\ pc = "get_args"
    /\ exit_code = RUNNING
    /\ error = NoError
    /\ argv \in ArgvCases
    /\ \E base \in BaseFiles, choice \in edit_choices(MaxEdits) :
         /\ argv # "both_files" => base = BaseUnchanged /\ choice = << >>
         /\ original_file = apply_edits(base.original, "original", choice)
         /\ modified_file = apply_edits(base.modified, "modified", choice)
    /\ stdout = << >>
    /\ label_mismatch_errors = << >>
    /\ parent_invalid_errors = << >>
    /\ original_oncotree = EmptyDict
    /\ modified_oncotree = EmptyDict
    /\ internal_id_to_oncocodes = EmptyDict
    /\ precursor_id_to_internal_ids = EmptyDict
    /\ revocation_id_to_internal_ids = EmptyDict
    /\ original_resource_uri_to_internal_ids = EmptyDict
    /\ modified_resource_uri_to_internal_ids = EmptyDict
    /\ oncotree_codes_to_internal_ids = EmptyDict
    /\ removed_internal_ids = {}
    /\ new_internal_ids = {}
    /\ in_both_internal_ids = {}
    /\ code_change_messages = << >>
    /\ parent_change_messages = << >>
    /\ answer = ""

\* sys.exit(code), or an uncaught exception (code 1), at the current step
\* the steps of main() and confirm_changes(), in the order of the code
Steps ==
    << "get_args", "validate_original", "validate_modified", "get_oncotree",
       "get_internal_id_to_oncocodes", "build_indexes", "removed", "new",
       "precursors", "revocations", "id_changes", "in_both", "print_changes",
       "confirm_change", "output_rdf_file", "returned" >>

step_index(step) == CHOOSE i \in DOMAIN Steps : Steps[i] = step

\* a fatal error that is recorded without ending the process
KeepGoing(code, err) ==
    /\ exit_code' = RUNNING
    /\ error' = err
    /\ pc' = Steps[step_index(pc) + 1]

Exit(code, err) ==
    /\ exit_code' = code
    /\ error' = err
    /\ pc' = pc

Goto(step) ==
    /\ pc' = step
    /\ UNCHANGED << exit_code, error >>

----------------------------------------------------------------------------
(* get_args                                                                *)

\* what get_args does with a command line: argparse exits with status 2 when
\* a required option is missing; usage() exits with status 1
get_args(args) ==
    CASE args = "option_missing" -> [ exit |-> TRUE, code |-> 2, kind |-> "argparse_error" ]
      [] args = "empty_path" -> [ exit |-> TRUE, code |-> 1, kind |-> "usage" ]
      [] args = "original_not_a_file" -> [ exit |-> TRUE, code |-> 1, kind |-> "usage" ]
      [] args = "modified_not_a_file" -> [ exit |-> TRUE, code |-> 1, kind |-> "usage" ]
      [] OTHER -> [ exit |-> FALSE, code |-> 0, kind |-> "" ]

GetArgs ==
    /\ pc = "get_args"
    /\ exit_code = RUNNING
    /\ LET r == get_args(argv)
       IN  IF r.exit THEN Exit(r.code, Error(r.kind, 0, "", ""))
           ELSE Goto("validate_original")
    /\ UNCHANGED << files, stdout, validation, oncotrees, internal_id_to_oncocodes,
                    indexes, id_sets, change_messages, answer >>

----------------------------------------------------------------------------
(* validate_csv_file                                                       *)

field_is_required(field) == field # ""

\* the emptiness test the wrong way round
field_is_unique_unless_empty(field, column_set) == ~(field = "" /\ field \in column_set)

field_is_unique(field, column_set) == ~(field # "" /\ field \in column_set)

\* the first pass over the rows: required fields, then uniqueness, row by row
RECURSIVE first_scan(_, _, _, _, _)
first_scan(rows, i, resource_uri_set, internal_id_set, oncotree_code_set) ==
    IF i > Len(rows) THEN NoError
    ELSE
      LET row == rows[i]
          required_fields == IF row[ONCOTREE_CODE] = "TISSUE"
                             THEN TISSUE_NODE_REQUIRED_FIELDS ELSE REQUIRED_FIELDS
          empty == { k \in DOMAIN required_fields :
                       ~field_is_required(row[required_fields[k]]) }
          first_empty == CHOOSE k \in empty : \A j \in empty : k <= j
      IN  IF empty # {}
          THEN Error("required_field", i, required_fields[first_empty], row[INTERNAL_ID])
          ELSE IF ~field_is_unique(row[RESOURCE_URI], resource_uri_set)
          THEN Error("not_unique", i, RESOURCE_URI, row[INTERNAL_ID])
          ELSE IF ~field_is_unique(row[INTERNAL_ID], internal_id_set)
          THEN Error("not_unique", i, INTERNAL_ID, row[INTERNAL_ID])
          ELSE IF ~field_is_unique(row[ONCOTREE_CODE], oncotree_code_set)
          THEN Error("not_unique", i, ONCOTREE_CODE, row[INTERNAL_ID])
          ELSE first_scan(rows, i + 1,
                          resource_uri_set \cup { row[RESOURCE_URI] },
                          internal_id_set \cup { row[INTERNAL_ID] },
                          oncotree_code_set \cup { row[ONCOTREE_CODE] })

\* a dict filled row by row with d[row[key]] = row[value]
RECURSIVE dict_of_rows(_, _, _)
dict_of_rows(rows, key, value) ==
    IF rows = << >> THEN EmptyDict
    ELSE LET row == rows[Len(rows)]
         IN  dict_set(dict_of_rows(SubSeq(rows, 1, Len(rows) - 1), key, value),
                      row[key], row[value])

parent_resource_uri_and_label_are_valid(parent_resource_uri, parent_label, child_to_parent_resource_uris, child_uri_to_child_label, child_to_parent_labels) ==
    /\ parent_label \in DOMAIN child_to_parent_labels
    /\ parent_label \in DOMAIN child_to_parent_resource_uris
    /\ child_uri_to_child_label[parent_label] = parent_label

\* the label compared with itself
label_mismatch_with_itself(row) == row[LABEL] # row[LABEL]

label_mismatch(row) == row[LABEL] # row[PREFERRED_LABEL]

\* only the two parent columns of the original header are looked at
tissue_has_parent_uri_or_label(row) ==
    \/ row[PARENT_RESOURCE_URI] # ""
    \/ row[PARENT_LABEL] # ""

tissue_has_parent(row) ==
    \/ row[PARENT_RESOURCE_URI] # ""
    \/ row[PARENT_LABEL] # ""
    \/ (PARENT_ONCOTREE_CODE \in DOMAIN row /\ row[PARENT_ONCOTREE_CODE] # "")

label_mismatch_message(row) ==
    row[INTERNAL_ID] \o ": '" \o row[LABEL] \o "' != '" \o row[PREFERRED_LABEL] \o "'"

parent_invalid_message(row) ==
    row[INTERNAL_ID] \o ": URI '" \o row[PARENT_RESOURCE_URI] \o "' and label '"
        \o row[PARENT_LABEL] \o "'"

\* the second pass: label and parent errors are collected, a TISSUE row with a
\* parent field ends the process at once
RECURSIVE second_scan(_, _, _, _, _, _, _)
second_scan(rows, i, child_to_parent_resource_uris, child_uri_to_child_label, child_to_parent_labels, label_errors, parent_errors) ==
    IF i > Len(rows)
    THEN [ error |-> NoError, label_mismatch_errors |-> label_errors,
           parent_invalid_errors |-> parent_errors ]
    ELSE
      LET row == rows[i]
          label_errors2 == IF label_mismatch(row)
                           THEN Append(label_errors, label_mismatch_message(row))
                           ELSE label_errors
          flagged == /\ row[ONCOTREE_CODE] # "TISSUE"
                     /\ parent_resource_uri_and_label_are_valid(
                            row[PARENT_RESOURCE_URI], row[PARENT_LABEL],
                            child_to_parent_resource_uris, child_uri_to_child_label,
                            child_to_parent_labels)
      IN  IF flagged
          THEN second_scan(rows, i + 1, child_to_parent_resource_uris,
                           child_uri_to_child_label, child_to_parent_labels,
                           label_errors2, Append(parent_errors, parent_invalid_message(row)))
          ELSE IF row[ONCOTREE_CODE] = "TISSUE" /\ tissue_has_parent(row)
          THEN [ error |-> Error("tissue_parent", i, "", row[INTERNAL_ID]),
                 label_mismatch_errors |-> label_errors2,
                 parent_invalid_errors |-> parent_errors ]
          ELSE second_scan(rows, i + 1, child_to_parent_resource_uris,
                           child_uri_to_child_label, child_to_parent_labels,
                           label_errors2, parent_errors)

tabbed(messages) == [ k \in DOMAIN messages |-> "\t" \o messages[k] ]

LabelMismatchHeader == "ERROR: 'Primary Concept' and 'preferred label (SKOS)' columns must be identical."

ParentInvalidHeader == "ERROR: Invalid parents found."

\* the outcome of validate_csv_file: whether it exits (always with status 1),
\* why, the lines it prints and its two lists
validate_csv_file(csv_file, expected_header) ==
    LET missing_fields == Range(expected_header) \ Range(csv_file.fieldnames)
        nothing == [ exit |-> TRUE, error |-> NoError, stdout |-> << >>,
                     label_mismatch_errors |-> << >>, parent_invalid_errors |-> << >> ]
    IN  IF missing_fields # {}
        THEN [ nothing EXCEPT !.error = Error("missing_fields", 0, "", "") ]
        ELSE
          LET scan1 == first_scan(csv_file.rows, 1, {}, {}, {})
          IN  IF scan1.kind # ""
              THEN [ nothing EXCEPT !.error = scan1 ]
              ELSE
                LET scan2 == second_scan(csv_file.rows, 1,
                               dict_of_rows(csv_file.rows, RESOURCE_URI, PARENT_RESOURCE_URI),
                               dict_of_rows(csv_file.rows, RESOURCE_URI, LABEL),
                               dict_of_rows(csv_file.rows, LABEL, PARENT_LABEL),
                               << >>, << >>)
                    lists == [ nothing EXCEPT
                                 !.label_mismatch_errors = scan2.label_mismatch_errors,
                                 !.parent_invalid_errors = scan2.parent_invalid_errors ]
                    printed ==
                        (IF scan2.label_mismatch_errors # << >>
                         THEN << LabelMismatchHeader >> \o tabbed(scan2.label_mismatch_errors)
                         ELSE << >>)
                        \o
                        (IF scan2.parent_invalid_errors # << >>
                         THEN << ParentInvalidHeader >> \o tabbed(scan2.parent_invalid_errors)
                         ELSE << >>)
                IN  IF scan2.error.kind # ""
                    THEN [ lists EXCEPT !.error = scan2.error ]
                    ELSE IF printed # << >>
                    THEN [ lists EXCEPT !.error = Error("label_or_parent_errors", 0, "", ""),
                                        !.stdout = printed ]
                    ELSE [ lists EXCEPT !.exit = FALSE ]

ValidateCsvFile(csv_file, expected_header, next_step) ==
    /\ exit_code = RUNNING
    /\ LET r == validate_csv_file(csv_file, expected_header)
       IN  /\ stdout' = stdout \o r.stdout
           /\ label_mismatch_errors' = r.label_mismatch_errors
           /\ parent_invalid_errors' = r.parent_invalid_errors
           /\ IF r.exit THEN Exit(1, r.error) ELSE Goto(next_step)
    /\ UNCHANGED << files, oncotrees, internal_id_to_oncocodes, indexes, id_sets,
                    change_messages, answer >>

ValidateOriginal ==
    /\ pc = "validate_original"
    /\ ValidateCsvFile(original_file, EXPECTED_HEADER, "validate_modified")

ValidateModified ==
    /\ pc = "validate_modified"
    /\ ValidateCsvFile(modified_file, EXPECTED_HEADER_MODIFIED_FILE, "get_oncotree")

----------------------------------------------------------------------------
(* get_oncotree, get_internal_id_to_oncocodes and the index builders       *)

construct_pretty_label_for_row(internal_id, code, label) ==
    internal_id \o ": " \o label \o " (" \o code \o ")"

status_warning(row) ==
    "WARNING: do not know what to do with node '"
        \o construct_pretty_label_for_row(row[INTERNAL_ID], row[ONCOTREE_CODE], row[LABEL])
        \o "' which has a status of '" \o row[STATUS]
        \o "', excluding it from the output file"

\* the dict get_oncotree returns: every row, whatever its status
RECURSIVE get_oncotree(_)
get_oncotree(rows) ==
    IF rows = << >> THEN EmptyDict
    ELSE LET row == rows[Len(rows)]
         IN  dict_set(get_oncotree(SubSeq(rows, 1, Len(rows) - 1)), row[INTERNAL_ID], row)

\* the warnings get_oncotree prints
get_oncotree_warnings(rows) ==
    LET not_published == SelectSeq(rows, LAMBDA row : row[STATUS] # "Published")
    IN  [ k \in DOMAIN not_published |-> status_warning(not_published[k]) ]

GetOncotree ==
    /\ pc = "get_oncotree"
    /\ exit_code = RUNNING
    /\ original_oncotree' = get_oncotree(original_file.rows)
    /\ modified_oncotree' = get_oncotree(modified_file.rows)
    /\ stdout' = stdout \o get_oncotree_warnings(original_file.rows)
                        \o get_oncotree_warnings(modified_file.rows)
    /\ Goto("get_internal_id_to_oncocodes")
    /\ UNCHANGED << files, validation, internal_id_to_oncocodes, indexes, id_sets,
                    change_messages, answer >>

\* what requests.get may bring back from GitHub
Responses ==
    { [ raised |-> FALSE, status_code |-> 200,
        text |-> << "X2 hasCode B", "X9 hasLabel Old9", "X9 hasCode OLD9" >> ],
      [ raised |-> FALSE, status_code |-> 200, text |-> << "X9 hasCode OLD9", "" >> ],
      [ raised |-> FALSE, status_code |-> 404, text |-> << "404: Not Found" >> ],
      [ raised |-> TRUE, status_code |-> 0, text |-> << >> ] }

RECURSIVE mapping_rows(_)
mapping_rows(text) ==
    IF text = << >> THEN [ error |-> NoError, value |-> EmptyDict ]
    ELSE LET before == mapping_rows(SubSeq(text, 1, Len(text) - 1))
             fields == split(text[Len(text)])
         IN  IF before.error.kind # "" THEN before
             ELSE IF Len(fields) < 2 THEN [ before EXCEPT !.error = Error("IndexError", 0, "", "") ]
             ELSE IF fields[2] # "hasCode" THEN before
             ELSE IF Len(fields) < 3 THEN [ before EXCEPT !.error = Error("IndexError", 0, "", "") ]
             ELSE [ before EXCEPT !.value = dict_set(@, fields[1], fields[3]) ]

get_internal_id_to_oncocodes(response) ==
    IF response.raised
    THEN [ error |-> Error("ConnectionError", 0, "", ""), value |-> EmptyDict ]
    ELSE IF response.status_code # 200
    THEN [ error |-> Error("download_failed", 0, "", ""), value |-> EmptyDict ]
    ELSE mapping_rows(response.text)

GetInternalIdToOncocodes ==
    /\ pc = "get_internal_id_to_oncocodes"
    /\ exit_code = RUNNING
    /\ \E response \in Responses :
         LET r == get_internal_id_to_oncocodes(response)
         IN  IF r.error.kind # ""
             THEN Exit(1, r.error) /\ UNCHANGED internal_id_to_oncocodes
             ELSE Goto("build_indexes") /\ internal_id_to_oncocodes' = r.value
    /\ UNCHANGED << files, stdout, validation, oncotrees, indexes, id_sets,
                    change_messages, answer >>

\* listed id -> the internal ids of the rows that list it in `column`
ids_listed_in(rows, column) ==
    LET listed(row) == IF row[column] # "" THEN Range(split(row[column])) ELSE {}
        keys == UNION { listed(rows[i]) : i \in DOMAIN rows }
    IN  [ k \in keys |-> { rows[i][INTERNAL_ID] : i \in { j \in DOMAIN rows : k \in listed(rows[j]) } } ]

get_all_precursors(csv_file) == ids_listed_in(csv_file.rows, PRECURSORS)

get_all_revocations(csv_file) == ids_listed_in(csv_file.rows, REVOCATIONS)

get_resource_uri_to_internal_ids(csv_file) ==
    dict_of_rows(csv_file.rows, RESOURCE_URI, INTERNAL_ID)

get_oncotree_codes_to_internal_ids(csv_file) ==
    dict_of_rows(csv_file.rows, ONCOTREE_CODE, INTERNAL_ID)

BuildIndexes ==
    /\ pc = "build_indexes"
    /\ exit_code = RUNNING
    /\ precursor_id_to_internal_ids' = get_all_precursors(modified_file)
    /\ revocation_id_to_internal_ids' = get_all_revocations(modified_file)
    /\ original_resource_uri_to_internal_ids' = get_resource_uri_to_internal_ids(original_file)
    /\ modified_resource_uri_to_internal_ids' = get_resource_uri_to_internal_ids(modified_file)
    /\ oncotree_codes_to_internal_ids' = get_oncotree_codes_to_internal_ids(modified_file)
    /\ Goto("removed")
    /\ UNCHANGED << files, stdout, validation, oncotrees, internal_id_to_oncocodes,
                    id_sets, change_messages, answer >>

----------------------------------------------------------------------------
(* confirm_changes                                                         *)

Ok(value) == [ error |-> NoError, value |-> value ]

Raise(kind, id) == [ error |-> Error(kind, 0, "", id), value |-> "" ]

\* parent_oncotree_code is "" where the script passes None
get_parent_internal_id(child_internal_id, parent_resource_uri, parent_oncotree_code, codes_to_internal_ids, resource_uri_to_internal_ids) ==
    IF parent_oncotree_code # ""
    THEN IF parent_oncotree_code \in DOMAIN codes_to_internal_ids
         THEN Ok(codes_to_internal_ids[parent_oncotree_code])
         ELSE Raise("parent_code_not_found", child_internal_id)
    ELSE IF parent_resource_uri = ""
    THEN Raise("parent_required", child_internal_id)
    ELSE IF parent_resource_uri \in DOMAIN resource_uri_to_internal_ids
    THEN Ok(resource_uri_to_internal_ids[parent_resource_uri])
    ELSE Raise("KeyError", child_internal_id)

\* the first code that maps to internal_id; the codes of a validated file map
\* to distinct internal ids, so there is at most one
get_oncotree_code_from_internal_id(codes_to_internal_ids, internal_id) ==
    LET codes == { code \in DOMAIN codes_to_internal_ids :
                     codes_to_internal_ids[code] = internal_id }
    IN  IF codes # {} THEN Ok(CHOOSE code \in codes : TRUE)
        ELSE Raise("no_code_for_internal_id", internal_id)

pretty_label(data) ==
    construct_pretty_label_for_row(data[INTERNAL_ID], data[ONCOTREE_CODE], data[LABEL])

original_internal_id_set == DOMAIN original_oncotree

modified_internal_id_set == DOMAIN modified_oncotree

\* lines 136-162: the three id sets and the removed ids
ReportRemoved ==
    /\ pc = "removed"
    /\ exit_code = RUNNING
    /\ removed_internal_ids' = original_internal_id_set \ modified_internal_id_set
    /\ new_internal_ids' = modified_internal_id_set \ original_internal_id_set
    /\ in_both_internal_ids' = original_internal_id_set \cap modified_internal_id_set
    /\ LET ids == sorted(removed_internal_ids')
       IN  stdout' = stdout \o << "\nRemoved internal ids:" >> \o
             (IF ids # << >>
              THEN [ k \in DOMAIN ids |-> "\t" \o pretty_label(original_oncotree[ids[k]]) ]
                   \o << "\n****** All removed Oncotree nodes must be manually deleted from Graphite" >>
              ELSE << "\tNone" >>)
    /\ Goto("new")
    /\ UNCHANGED << files, validation, oncotrees, internal_id_to_oncocodes, indexes,
                    change_messages, answer >>

new_node_has_resource_uri(data) == data[RESOURCE_URI] # ""

\* lines 166-177, from the i-th new id on: the lines printed and the error, if any
RECURSIVE report_new(_, _)
report_new(ids, i) ==
    IF i > Len(ids) THEN [ error |-> NoError, stdout |-> << >> ]
    ELSE
      LET data == modified_oncotree[ids[i]]
          parent == get_parent_internal_id(ids[i], data[PARENT_RESOURCE_URI],
                        data[PARENT_ONCOTREE_CODE], oncotree_codes_to_internal_ids,
                        modified_resource_uri_to_internal_ids)
      IN  IF new_node_has_resource_uri(data)
          THEN [ error |-> Error("new_with_resource_uri", 0, "", ids[i]), stdout |-> << >> ]
          ELSE IF parent.error.kind # ""
          THEN [ error |-> parent.error, stdout |-> << >> ]
          ELSE LET parent_data == modified_oncotree[parent.value]
                   line == "\t" \o pretty_label(data) \o " has parent "
                             \o construct_pretty_label_for_row(parent.value,
                                    parent_data[ONCOTREE_CODE], parent_data[LABEL])
                   rest == report_new(ids, i + 1)
               IN  [ rest EXCEPT !.stdout = << line >> \o @ ]

ReportNew ==
    /\ pc = "new"
    /\ exit_code = RUNNING
    /\ LET r == IF new_internal_ids # {} THEN report_new(sorted(new_internal_ids), 1)
                ELSE [ error |-> NoError, stdout |-> << "\tNone" >> ]
       IN  /\ stdout' = stdout \o << "\nNew internal ids:" >> \o r.stdout
           /\ IF r.error.kind # "" THEN Exit(1, r.error) ELSE Goto("precursors")
    /\ UNCHANGED << files, validation, oncotrees, internal_id_to_oncocodes, indexes,
                    id_sets, change_messages, answer >>

oncocode_of(listed_id) ==
    IF listed_id \in DOMAIN internal_id_to_oncocodes
    THEN internal_id_to_oncocodes[listed_id] ELSE "unknown"

lineage_line(listed_id, internal_id) ==
    "\t'" \o listed_id \o "' ('" \o oncocode_of(listed_id) \o "') -> '"
        \o pretty_label(modified_oncotree[internal_id]) \o "'"

precursor_is_current(precursor_id) == precursor_id \in modified_internal_id_set

\* lines 183-193, from the i-th precursor id on: every outcome the iteration
\* order of the sets allows
RECURSIVE report_precursors(_, _)
report_precursors(ids, i) ==
    IF i > Len(ids) THEN { [ error |-> NoError, stdout |-> << >> ] }
    ELSE IF precursor_is_current(ids[i])
    THEN { [ error |-> Error("precursor_is_current", 0, "", ids[i]), stdout |-> << >> ] }
    ELSE { [ rest EXCEPT !.stdout =
                 [ k \in DOMAIN order |-> lineage_line(ids[i], order[k]) ] \o @ ] :
             order \in iteration_orders(precursor_id_to_internal_ids[ids[i]]),
             rest \in report_precursors(ids, i + 1) }

ReportPrecursors ==
    /\ pc = "precursors"
    /\ exit_code = RUNNING
    /\ \E r \in IF DOMAIN precursor_id_to_internal_ids # {}
                THEN report_precursors(sorted(DOMAIN precursor_id_to_internal_ids), 1)
                ELSE { [ error |-> NoError, stdout |-> << "\tNone" >> ] } :
         /\ stdout' = stdout \o << "\nPrecurors:" >> \o r.stdout
         /\ IF r.error.kind # "" THEN Exit(1, r.error) ELSE Goto("revocations")
    /\ UNCHANGED << files, validation, oncotrees, internal_id_to_oncocodes, indexes,
                    id_sets, change_messages, answer >>

\* the ids of the wrong file
revocation_is_original(revocation_id) == revocation_id \in original_internal_id_set

revocation_is_current(revocation_id) == revocation_id \in modified_internal_id_set

revocation_is_precursor(revocation_id) ==
    revocation_id \in DOMAIN precursor_id_to_internal_ids

\* the wrong id set
revoked_by_removed_concept(internal_id) == internal_id \in removed_internal_ids

revoked_by_new_concept(internal_id) == internal_id \in new_internal_ids

\* lines 208-214 for one revocation id, from the k-th revoking id of `order` on
RECURSIVE report_revoking(_, _, _)
report_revoking(revocation_id, order, k) ==
    IF k > Len(order) THEN [ error |-> NoError, stdout |-> << >> ]
    ELSE IF revoked_by_new_concept(order[k])
    THEN [ error |-> Error("revoked_by_new", 0, "", order[k]), stdout |-> << >> ]
    ELSE LET rest == report_revoking(revocation_id, order, k + 1)
         IN  [ rest EXCEPT !.stdout = << lineage_line(revocation_id, order[k]) >> \o @ ]

\* lines 199-214, from the i-th revocation id on
RECURSIVE report_revocations(_, _)
report_revocations(ids, i) ==
    IF i > Len(ids) THEN { [ error |-> NoError, stdout |-> << >> ] }
    ELSE IF revocation_is_current(ids[i])
    THEN { [ error |-> Error("revocation_is_current", 0, "", ids[i]), stdout |-> << >> ] }
    ELSE IF revocation_is_precursor(ids[i])
    THEN { [ error |-> Error("revocation_is_precursor", 0, "", ids[i]), stdout |-> << >> ] }
    ELSE UNION {
           LET here == report_revoking(ids[i], order, 1)
           IN  IF here.error.kind # "" THEN { here }
               ELSE { [ rest EXCEPT !.stdout = here.stdout \o @ ] :
                        rest \in report_revocations(ids, i + 1) } :
           order \in iteration_orders(revocation_id_to_internal_ids[ids[i]]) }

ReportRevocations ==
    /\ pc = "revocations"
    /\ exit_code = RUNNING
    /\ \E r \in IF DOMAIN revocation_id_to_internal_ids # {}
                THEN report_revocations(sorted(DOMAIN revocation_id_to_internal_ids), 1)
                ELSE { [ error |-> NoError, stdout |-> << "\tNone" >> ] } :
         /\ stdout' = stdout \o << "\nRevocations:" >> \o r.stdout
         /\ IF r.error.kind # "" THEN Exit(1, r.error) ELSE Goto("id_changes")
    /\ UNCHANGED << files, validation, oncotrees, internal_id_to_oncocodes, indexes,
                    id_sets, change_messages, answer >>

\* a diff that also counts the columns only one of the rows has
fields_that_differ(original_data, modified_data) ==
    { c \in (DOMAIN original_data) \cup (DOMAIN modified_data) :
        \/ c \notin (DOMAIN original_data) \cap (DOMAIN modified_data)
        \/ original_data[c] # modified_data[c] } \ { INTERNAL_ID }

\* DeepDiff(original_data, modified_data)['values_changed'] without the
\* internal id: the columns both rows have, with different values
values_changed(original_data, modified_data) ==
    { c \in (DOMAIN original_data) \cap (DOMAIN modified_data) :
        original_data[c] # modified_data[c] } \ { INTERNAL_ID }

id_change_line(pair) ==
    "\t'" \o pretty_label(original_oncotree[pair[1]]) \o "' -> '"
        \o pretty_label(modified_oncotree[pair[2]]) \o "'"

\* lines 219-236: the loop visits removed x new in the order of a set and
\* prints a line for each pair with no changed value
ReportIdChanges ==
    /\ pc = "id_changes"
    /\ exit_code = RUNNING
    /\ LET found == { pair \in removed_internal_ids \X new_internal_ids :
                        values_changed(original_oncotree[pair[1]],
                                       modified_oncotree[pair[2]]) = {} }
       IN  \E order \in iteration_orders(found) :
             stdout' = stdout
               \o << "\nInternal ids that changed when no other data has changed ... are these really new concepts that cover different sets of cancer cases?" >>
               \o (IF found # {} THEN [ k \in DOMAIN order |-> id_change_line(order[k]) ]
                   ELSE << "\tNone" >>)
    /\ Goto("in_both")
    /\ UNCHANGED << files, validation, oncotrees, internal_id_to_oncocodes, indexes,
                    id_sets, change_messages, answer >>

resource_uri_is_missing(original_data) == strip(original_data[RESOURCE_URI]) = ""

\* the original row compared with itself
resource_uri_differs_from_itself(original_data, modified_data) ==
    original_data[RESOURCE_URI] # original_data[RESOURCE_URI]

resource_uri_has_changed(original_data, modified_data) ==
    original_data[RESOURCE_URI] # modified_data[RESOURCE_URI]

oncotree_code_has_changed(original_data, modified_data) ==
    original_data[ONCOTREE_CODE] # modified_data[ONCOTREE_CODE]

code_change_message(original_data, modified_data) ==
    "\t'" \o pretty_label(original_data) \o "' -> '" \o pretty_label(modified_data) \o "'"

parent_change_message(original_data, modified_data, original_parent, modified_parent) ==
    "\tchild: '" \o pretty_label(original_data) \o "' parent: '" \o original_parent
        \o "' -> child: '" \o pretty_label(modified_data) \o "' parent: '"
        \o modified_parent \o "'"

\* lines 262-270: the code of the parent in the modified file
modified_parent_oncotree_code(internal_id, modified_data) ==
    IF modified_data[PARENT_ONCOTREE_CODE] # ""
    THEN Ok(modified_data[PARENT_ONCOTREE_CODE])
    ELSE LET parent == get_parent_internal_id(internal_id,
                           modified_data[PARENT_RESOURCE_URI],
                           modified_data[PARENT_ONCOTREE_CODE],
                           oncotree_codes_to_internal_ids,
                           modified_resource_uri_to_internal_ids)
         IN  IF parent.error.kind # "" THEN parent
             ELSE get_oncotree_code_from_internal_id(oncotree_codes_to_internal_ids,
                                                     parent.value)

\* lines 274-279: the code of the parent in the original file, looked up in
\* the codes of the modified file
original_parent_oncotree_code(internal_id, original_data) ==
    LET parent == get_parent_internal_id(internal_id, original_data[PARENT_RESOURCE_URI],
                      "", oncotree_codes_to_internal_ids,
                      original_resource_uri_to_internal_ids)
    IN  IF parent.error.kind # "" THEN parent
        ELSE get_oncotree_code_from_internal_id(oncotree_codes_to_internal_ids,
                                                parent.value)

is_tissue_id(internal_id) == internal_id = "ONC000001"

\* lines 241-281, from the k-th id of `order` on, with the messages so far
RECURSIVE compare_in_both(_, _, _, _)
compare_in_both(order, k, code_changes, parent_changes) ==
    IF k > Len(order)
    THEN [ error |-> NoError, code_change_messages |-> code_changes,
           parent_change_messages |-> parent_changes ]
    ELSE
      LET internal_id == order[k]
          original_data == original_oncotree[internal_id]
          modified_data == modified_oncotree[internal_id]
          \* the process ends while this id is compared
          stop(err) == [ error |-> [ err EXCEPT !.id = internal_id ],
                         code_change_messages |-> code_changes,
                         parent_change_messages |-> parent_changes ]
          code_changes2 ==
              IF oncotree_code_has_changed(original_data, modified_data)
              THEN Append(code_changes, code_change_message(original_data, modified_data))
              ELSE code_changes
          modified_parent == modified_parent_oncotree_code(internal_id, modified_data)
          original_parent == original_parent_oncotree_code(internal_id, original_data)
      IN  IF resource_uri_is_missing(original_data)
          THEN stop(Error("resource_uri_missing", 0, "", internal_id))
          ELSE IF resource_uri_has_changed(original_data, modified_data)
          THEN stop(Error("resource_uri_changed", 0, "", internal_id))
          ELSE IF is_tissue_id(internal_id)
          THEN compare_in_both(order, k + 1, code_changes2, parent_changes)
          ELSE IF modified_parent.error.kind # ""
          THEN stop(modified_parent.error)
          ELSE IF original_parent.error.kind # ""
          THEN stop(original_parent.error)
          ELSE compare_in_both(order, k + 1, code_changes2,
                   IF original_parent.value # modified_parent.value
                   THEN Append(parent_changes,
                               parent_change_message(original_data, modified_data,
                                   original_parent.value, modified_parent.value))
                   ELSE parent_changes)

CompareInBoth ==
    /\ pc = "in_both"
    /\ exit_code = RUNNING
    /\ \E order \in iteration_orders(in_both_internal_ids) :
         LET r == compare_in_both(order, 1, << >>, << >>)
         IN  /\ code_change_messages' = r.code_change_messages
             /\ parent_change_messages' = r.parent_change_messages
             /\ IF r.error.kind # "" THEN Exit(1, r.error) ELSE Goto("print_changes")
    /\ UNCHANGED << files, stdout, validation, oncotrees, internal_id_to_oncocodes,
                    indexes, id_sets, answer >>

\* lines 284-296
PrintChanges ==
    /\ pc = "print_changes"
    /\ exit_code = RUNNING
    /\ stdout' = stdout
         \o << "\nOncotree code/label changes with no internal id change.  This is allowed as long as the new code/label covers the exact same set of cancer cases" >>
         \o (IF code_change_messages # << >> THEN code_change_messages ELSE << "\tNone" >>)
         \o << "\nParent change" >>
         \o (IF parent_change_messages # << >> THEN parent_change_messages ELSE << "\tNone" >>)
    /\ Goto("confirm_change")
    /\ UNCHANGED << files, validation, oncotrees, internal_id_to_oncocodes, indexes,
                    id_sets, change_messages, answer >>

\* what the curator may type at the prompt
Answers == { "y", "YES", "n", "" }

confirm_change(typed) == lower(typed) \in { "y", "yes" }

\* lines 298-300
ConfirmChange ==
    /\ pc = "confirm_change"
    /\ exit_code = RUNNING
    /\ \E typed \in Answers :
         /\ answer' = typed
         /\ stdout' = stdout \o << "\n\nPlease confirm that all of the above changes are intentional." >>
         /\ IF confirm_change(typed) THEN Goto("output_rdf_file")
            ELSE Exit(2, Error("not_intentional", 0, "", ""))
    /\ UNCHANGED << files, validation, oncotrees, internal_id_to_oncocodes, indexes,
                    id_sets, change_messages >>

\* output_rdf_file, after which main returns and the process ends with status 0
OutputRdfFile ==
    /\ pc = "output_rdf_file"
    /\ exit_code = RUNNING
    /\ stdout' = Append(stdout, "TODO: output RDF file")
    /\ pc' = "returned"
    /\ exit_code' = 0
    /\ UNCHANGED << error, files, validation, oncotrees, internal_id_to_oncocodes,
                    indexes, id_sets, change_messages, answer >>

Next ==
    \/ GetArgs
    \/ ValidateOriginal
    \/ ValidateModified
    \/ GetOncotree
    \/ GetInternalIdToOncocodes
    \/ BuildIndexes
    \/ ReportRemoved
    \/ ReportNew
    \/ ReportPrecursors
    \/ ReportRevocations
    \/ ReportIdChanges
    \/ CompareInBoth
    \/ PrintChanges
    \/ ConfirmChange
    \/ OutputRdfFile

Spec == Init /\ [][Next]_vars

----------------------------------------------------------------------------
(* Vocabulary of the properties: the two files as the curator sees them,   *)
(* and how far the run got.                                                *)

Terminated == exit_code # RUNNING

\* the step `step` has run to its end without ending the process
Passed(step) == step_index(pc) > step_index(step)

\* the process ended inside `step`
EndedIn(step) == Terminated /\ pc = step

\* the run got as far as asking the curator
PromptReached == Passed("print_changes")

FilesWereRead == argv = "both_files"

HasColumns(csv_file, columns) == columns \subseteq Range(csv_file.fieldnames)

RowsOf(csv_file) == Range(csv_file.rows)

IdsOf(csv_file) == { row[INTERNAL_ID] : row \in RowsOf(csv_file) }

AddedIds == IdsOf(modified_file) \ IdsOf(original_file)

RetainedIds == IdsOf(modified_file) \cap IdsOf(original_file)

RemovedIds == IdsOf(original_file) \ IdsOf(modified_file)

----------------------------------------------------------------------------
(* C1: every run ends with status 0 only after every check passed and the  *)
(* curator answered yes, with status 2 exactly when every check passed and *)
(* the curator declined, and with status 1 otherwise, in which case the    *)
(* prompt was never reached.                                               *)

C1_ExitCodes ==
    /\ exit_code \in { RUNNING, 0, 1, 2 }
    /\ exit_code = 0 => pc = "returned" /\ confirm_change(answer)
    /\ exit_code = 2 <=> (EndedIn("confirm_change") /\ ~confirm_change(answer))
    /\ exit_code = 1 => ~PromptReached /\ pc # "confirm_change"

----------------------------------------------------------------------------
(* C2: when the prompt is reached, every retained internal id has a        *)
(* non-empty resource uri in the original file and the same one in the     *)
(* modified file, and every added internal id has an empty resource uri;   *)
(* a pair of files that is not so ends with status 1 before the prompt.    *)

ResourceUrisKept ==
    /\ \A o \in RowsOf(original_file), m \in RowsOf(modified_file) :
         o[INTERNAL_ID] = m[INTERNAL_ID] =>
           o[RESOURCE_URI] # "" /\ o[RESOURCE_URI] = m[RESOURCE_URI]
    /\ \A m \in RowsOf(modified_file) :
         m[INTERNAL_ID] \in AddedIds => m[RESOURCE_URI] = ""

C2_ResourceUris ==
    /\ PromptReached => ResourceUrisKept
    /\ (FilesWereRead /\ Terminated /\ ~ResourceUrisKept) =>
         exit_code = 1 /\ ~PromptReached

C2_Witness ==
    /\ pc = "confirm_change"
    /\ exit_code = RUNNING
    /\ RetainedIds # {}
    /\ AddedIds # {}

----------------------------------------------------------------------------
(* C3: when the prompt is reached, no id listed in a precursors or         *)
(* revocations field of the modified file is an internal id of that file,  *)
(* no id is listed both as a precursor and as a revocation, and no row     *)
(* that lists a revocation is an added row; a modified file that is not so *)
(* ends with status 1.                                                     *)

ListedIn(row, column) == Range(split(row[column]))

AllListed(column) == UNION { ListedIn(row, column) : row \in RowsOf(modified_file) }

LineageConsistent ==
    /\ (AllListed(PRECURSORS) \cup AllListed(REVOCATIONS)) \cap IdsOf(modified_file) = {}
    /\ AllListed(PRECURSORS) \cap AllListed(REVOCATIONS) = {}
    /\ \A row \in RowsOf(modified_file) :
         ListedIn(row, REVOCATIONS) # {} => row[INTERNAL_ID] \notin AddedIds

C3_Lineage ==
    /\ PromptReached => LineageConsistent
    /\ (FilesWereRead /\ Terminated /\ ~LineageConsistent) =>
         exit_code = 1 /\ ~PromptReached

C3_Witness ==
    /\ pc = "confirm_change"
    /\ exit_code = RUNNING
    /\ AllListed(PRECURSORS) # {}
    /\ AllListed(REVOCATIONS) # {}

----------------------------------------------------------------------------
(* C4: a file validate_csv_file accepts has no two rows with the same      *)
(* non-empty resource uri, internal id or oncotree code; a file with such  *)
(* a duplicate ends the run with status 1 inside validation, before a node *)
(* map is loaded and before any later check.                               *)

KeyColumns == { RESOURCE_URI, INTERNAL_ID, ONCOTREE_CODE }

HasDuplicate(csv_file) ==
    \E i, j \in DOMAIN csv_file.rows, column \in KeyColumns :
       /\ i < j
       /\ csv_file.rows[i][column] # ""
       /\ csv_file.rows[i][column] = csv_file.rows[j][column]

NothingLoaded ==
    /\ original_oncotree = EmptyDict
    /\ modified_oncotree = EmptyDict
    /\ removed_internal_ids = {} /\ new_internal_ids = {} /\ in_both_internal_ids = {}

C4_Unique ==
    /\ Passed("validate_original") => ~HasDuplicate(original_file)
    /\ Passed("validate_modified") => ~HasDuplicate(modified_file)
    /\ (FilesWereRead /\ Terminated
          /\ (HasDuplicate(original_file) \/ HasDuplicate(modified_file))) =>
         /\ exit_code = 1
         /\ pc \in { "validate_original", "validate_modified" }
         /\ NothingLoaded

C4_Witness ==
    /\ EndedIn("validate_modified")
    /\ error.kind = "not_unique"
    /\ HasDuplicate(modified_file)
    /\ ~HasDuplicate(original_file)

----------------------------------------------------------------------------
(* C5: in a file validate_csv_file accepts, every row whose code is not    *)
(* TISSUE has a row whose (resource uri, label) is its (parent resource    *)
(* uri, parent label); a file with a row whose parent pair matches no row  *)
(* is rejected with status 1, and a file in which every such pair matches  *)
(* a row is not rejected for its parent links.                             *)

ParentLinksResolve(csv_file) ==
    \A row \in RowsOf(csv_file) :
       row[ONCOTREE_CODE] # "TISSUE" =>
         \E parent \in RowsOf(csv_file) :
            /\ parent[RESOURCE_URI] = row[PARENT_RESOURCE_URI]
            /\ parent[LABEL] = row[PARENT_LABEL]

C5_ParentLinks ==
    /\ Passed("validate_original") => ParentLinksResolve(original_file)
    /\ Passed("validate_modified") => ParentLinksResolve(modified_file)
    /\ (EndedIn("validate_original") /\ ParentLinksResolve(original_file)) =>
         parent_invalid_errors = << >>
    /\ (EndedIn("validate_modified") /\ ParentLinksResolve(modified_file)) =>
         parent_invalid_errors = << >>

----------------------------------------------------------------------------
(* C6: in a file that passes the header, required-field and uniqueness     *)
(* checks and has a row whose label differs from its preferred label,      *)
(* validation ends with status 1 after every such row, and no other, has   *)
(* been printed once in the mismatch list; no other fatal check of the     *)
(* scan ends the process before the lists are printed.                     *)

HeaderComplete(csv_file, expected_header) == HasColumns(csv_file, Range(expected_header))

RequiredFilled(csv_file) ==
    \A row \in RowsOf(csv_file) :
       \A column \in Range(IF row[ONCOTREE_CODE] = "TISSUE"
                           THEN TISSUE_NODE_REQUIRED_FIELDS ELSE REQUIRED_FIELDS) :
          row[column] # ""

PassesFirstScan(csv_file, expected_header) ==
    /\ HeaderComplete(csv_file, expected_header)
    /\ RequiredFilled(csv_file)
    /\ ~HasDuplicate(csv_file)

MismatchLine(row) ==
    "\t" \o row[INTERNAL_ID] \o ": '" \o row[LABEL] \o "' != '" \o row[PREFERRED_LABEL] \o "'"

\* the lines the mismatch list of the file should show, in file order
MismatchLines(csv_file) ==
    LET rows == SelectSeq(csv_file.rows, LAMBDA row : row[LABEL] # row[PREFERRED_LABEL])
    IN  [ k \in DOMAIN rows |-> MismatchLine(rows[k]) ]

\* the lines printed that report a label mismatch of some row of the file
PrintedMismatchLines(csv_file) ==
    SelectSeq(stdout, LAMBDA line : \E row \in RowsOf(csv_file) : line = MismatchLine(row))

TissueRowWithParent(csv_file) ==
    \E row \in RowsOf(csv_file) :
       /\ row[ONCOTREE_CODE] = "TISSUE"
       /\ \E column \in { PARENT_RESOURCE_URI, PARENT_LABEL, PARENT_ONCOTREE_CODE } :
             column \in DOMAIN row /\ row[column] # ""

\* validate_csv_file has run on the file, to its end or to an exit
ValidationOver(step) == Passed(step) \/ EndedIn(step)

MismatchesReported(csv_file, step) ==
    /\ EndedIn(step)
    /\ exit_code = 1
    /\ PrintedMismatchLines(csv_file) = MismatchLines(csv_file)

C6_Original ==
    /\ (ValidationOver("validate_original")
          /\ PassesFirstScan(original_file, EXPECTED_HEADER)
          /\ MismatchLines(original_file) # << >>) =>
         MismatchesReported(original_file, "validate_original")
    /\ (ValidationOver("validate_modified")
          /\ PassesFirstScan(modified_file, EXPECTED_HEADER_MODIFIED_FILE)
          /\ MismatchLines(modified_file) # << >>) =>
         MismatchesReported(modified_file, "validate_modified")

(* C6, amended: the same, for a file in which no TISSUE row has a          *)
(* non-empty parent field; such a row, met in the same scan, ends the      *)
(* process with status 1 before the lists are printed.                     *)
C6_LabelMismatches ==
    /\ (ValidationOver("validate_original")
          /\ PassesFirstScan(original_file, EXPECTED_HEADER)
          /\ MismatchLines(original_file) # << >>) =>
         /\ EndedIn("validate_original") /\ exit_code = 1
         /\ ~TissueRowWithParent(original_file) =>
              PrintedMismatchLines(original_file) = MismatchLines(original_file)
    /\ (ValidationOver("validate_modified")
          /\ PassesFirstScan(modified_file, EXPECTED_HEADER_MODIFIED_FILE)
          /\ MismatchLines(modified_file) # << >>) =>
         /\ EndedIn("validate_modified") /\ exit_code = 1
         /\ ~TissueRowWithParent(modified_file) =>
              PrintedMismatchLines(modified_file) = MismatchLines(modified_file)

C6_Witness ==
    /\ EndedIn("validate_modified")
    /\ error.kind = "label_or_parent_errors"
    /\ Len(MismatchLines(modified_file)) = 2
    /\ Len(modified_file.rows) = 3
    /\ PrintedMismatchLines(modified_file) = MismatchLines(modified_file)

----------------------------------------------------------------------------
(* C7: a TISSUE row with a non-empty parent resource uri, parent label or  *)
(* (where the column exists) parent oncotree code is rejected with status  *)
(* 1; a TISSUE row with empty parent fields and the fields of              *)
(* TISSUE_NODE_REQUIRED_FIELDS filled is accepted, also with color, main   *)
(* type and parent fields empty.                                           *)

LabelsMatch(csv_file) == \A row \in RowsOf(csv_file) : row[LABEL] = row[PREFERRED_LABEL]

\* a file in which nothing but a parent link could be objected to
WellFormed(csv_file, expected_header) ==
    /\ PassesFirstScan(csv_file, expected_header)
    /\ LabelsMatch(csv_file)
    /\ ~TissueRowWithParent(csv_file)

C7_TissueRow ==
    /\ (FilesWereRead /\ ValidationOver("validate_original")
          /\ HeaderComplete(original_file, EXPECTED_HEADER)
          /\ TissueRowWithParent(original_file)) =>
         EndedIn("validate_original") /\ exit_code = 1
    /\ (FilesWereRead /\ ValidationOver("validate_modified")
          /\ HeaderComplete(modified_file, EXPECTED_HEADER_MODIFIED_FILE)
          /\ TissueRowWithParent(modified_file)) =>
         EndedIn("validate_modified") /\ exit_code = 1
    /\ (ValidationOver("validate_original")
          /\ WellFormed(original_file, EXPECTED_HEADER)
          /\ parent_invalid_errors = << >>) =>
         Passed("validate_original")
    /\ (ValidationOver("validate_modified")
          /\ WellFormed(modified_file, EXPECTED_HEADER_MODIFIED_FILE)
          /\ parent_invalid_errors = << >>) =>
         Passed("validate_modified")

C7_Witness ==
    /\ EndedIn("validate_modified")
    /\ error.kind = "tissue_parent"
    /\ \E row \in RowsOf(modified_file) :
          /\ row[ONCOTREE_CODE] = "TISSUE"
          /\ row[PARENT_RESOURCE_URI] = "" /\ row[PARENT_LABEL] = ""
          /\ row[PARENT_ONCOTREE_CODE] # ""
    /\ \E row \in RowsOf(original_file) :
          /\ row[ONCOTREE_CODE] = "TISSUE"
          /\ row[COLOR] = "" /\ row[MAIN_TYPE] = ""
          /\ row[PARENT_RESOURCE_URI] = "" /\ row[PARENT_LABEL] = ""

----------------------------------------------------------------------------
(* C8: a row whose status is non-empty and not "Published" does not make   *)
(* the run fail, and its internal id is left out of the node map: it is in *)
(* none of the id sets and no reconcile check is applied to it.            *)

NotPublishedIds(csv_file) ==
    { row[INTERNAL_ID] : row \in { r \in RowsOf(csv_file) :
                                     r[STATUS] # "" /\ r[STATUS] # "Published" } }

C8_NotPublishedExcluded ==
    /\ Passed("get_oncotree") =>
         /\ NotPublishedIds(original_file) \cap DOMAIN original_oncotree = {}
         /\ NotPublishedIds(modified_file) \cap DOMAIN modified_oncotree = {}
    /\ Passed("removed") =>
         /\ NotPublishedIds(original_file) \cap (removed_internal_ids \cup in_both_internal_ids) = {}
         /\ NotPublishedIds(modified_file) \cap (new_internal_ids \cup in_both_internal_ids) = {}
    /\ Terminated => error.id \notin NotPublishedIds(original_file) \cup NotPublishedIds(modified_file)
                        \/ error.kind \in { "required_field", "not_unique", "tissue_parent" }

----------------------------------------------------------------------------
(* C9: for an added row, or a retained row that is not the root, of the    *)
(* modified file with a non-empty parent oncotree code, the parent is the  *)
(* row with that code whatever the parent resource uri says, and a code    *)
(* that no row of the modified file has ends the run with status 1.        *)

CodesOf(csv_file) == { row[ONCOTREE_CODE] : row \in RowsOf(csv_file) }

DanglingParentCode ==
    \E row \in RowsOf(modified_file) :
       /\ row[INTERNAL_ID] \in AddedIds
            \/ (row[INTERNAL_ID] \in RetainedIds /\ row[ONCOTREE_CODE] # "TISSUE")
       /\ row[PARENT_ONCOTREE_CODE] # ""
       /\ row[PARENT_ONCOTREE_CODE] \notin CodesOf(modified_file)

C9_ParentCode ==
    /\ PromptReached => ~DanglingParentCode
    /\ (FilesWereRead /\ Terminated
          /\ HeaderComplete(modified_file, EXPECTED_HEADER_MODIFIED_FILE)
          /\ DanglingParentCode) => exit_code = 1

----------------------------------------------------------------------------
(* C10: between two files that pass validation, a retained internal id     *)
(* with an unchanged resource uri whose oncotree code or parent differs    *)
(* never ends the run: the prompt is reached with the code change listed,  *)
(* also when the original parent is no longer in the modified file.        *)

Valid(csv_file, expected_header) ==
    /\ WellFormed(csv_file, expected_header)
    /\ ParentLinksResolve(csv_file)

\* the retained ids the claim is about: same resource uri, other code or parent
ChangedInPlace ==
    { id \in RetainedIds :
        \E o \in RowsOf(original_file), m \in RowsOf(modified_file) :
           /\ o[INTERNAL_ID] = id /\ m[INTERNAL_ID] = id
           /\ strip(o[RESOURCE_URI]) # "" /\ o[RESOURCE_URI] = m[RESOURCE_URI]
           /\ \/ o[ONCOTREE_CODE] # m[ONCOTREE_CODE]
              \/ o[PARENT_RESOURCE_URI] # m[PARENT_RESOURCE_URI]
              \/ m[PARENT_ONCOTREE_CODE] # "" }

C10_ChangesAreReported ==
    (/\ Valid(original_file, EXPECTED_HEADER)
     /\ Valid(modified_file, EXPECTED_HEADER_MODIFIED_FILE)) =>
       /\ EndedIn("in_both") => error.id \notin ChangedInPlace
       /\ PromptReached =>
            \A id \in ChangedInPlace :
               original_oncotree[id][ONCOTREE_CODE] # modified_oncotree[id][ONCOTREE_CODE] =>
                 \E k \in DOMAIN code_change_messages :
                    code_change_messages[k] =
                      code_change_message(original_oncotree[id], modified_oncotree[id])

----------------------------------------------------------------------------
(* C11: reconciliation is deterministic: the removed, added and retained   *)
(* sets are those of the two files, and the entries of every section of    *)
(* the report (removed, added, precursors, revocations, identity changes,  *)
(* code changes, parent changes) are in identifier-sorted order, whatever  *)
(* the iteration order of the sets.                                        *)

RemovedHeader == "\nRemoved internal ids:"
NewHeader == "\nNew internal ids:"
PrecursorsHeader == "\nPrecurors:"
RevocationsHeader == "\nRevocations:"
IdChangesHeader ==
    "\nInternal ids that changed when no other data has changed ... are these really new concepts that cover different sets of cancer cases?"
CodeChangesHeader ==
    "\nOncotree code/label changes with no internal id change.  This is allowed as long as the new code/label covers the exact same set of cancer cases"
ParentChangesHeader == "\nParent change"
PromptLine == "\n\nPlease confirm that all of the above changes are intentional."

line_index(line) == CHOOSE i \in DOMAIN stdout : stdout[i] = line

\* the lines printed under `header`, up to the line `next_header`
Section(header, next_header) ==
    SubSeq(stdout, line_index(header) + 1, line_index(next_header) - 1)

OrNone(lines) == IF lines = << >> THEN << "\tNone" >> ELSE lines

\* the lines of a lineage index with the listed ids, and the ids that list
\* each of them, in sorted order
RECURSIVE SortedLineageLines(_, _, _)
SortedLineageLines(index, ids, i) ==
    IF i > Len(ids) THEN << >>
    ELSE LET listing == sorted(index[ids[i]])
         IN  [ k \in DOMAIN listing |-> lineage_line(ids[i], listing[k]) ]
               \o SortedLineageLines(index, ids, i + 1)

\* the removed x new pairs, sorted by removed id and then by new id
SortedPairs ==
    LET removed == sorted(removed_internal_ids)
        new == sorted(new_internal_ids)
    IN  [ k \in 1..(Len(removed) * Len(new)) |->
            << removed[((k - 1) \div Len(new)) + 1], new[((k - 1) % Len(new)) + 1] >> ]

SortedIdChangeLines ==
    LET found == SelectSeq(SortedPairs,
                     LAMBDA pair : values_changed(original_oncotree[pair[1]],
                                                  modified_oncotree[pair[2]]) = {})
    IN  [ k \in DOMAIN found |-> id_change_line(found[k]) ]

SortedRemovedLines ==
    LET ids == sorted(removed_internal_ids)
    IN  IF ids = << >> THEN << "\tNone" >>
        ELSE [ k \in DOMAIN ids |-> "\t" \o pretty_label(original_oncotree[ids[k]]) ]
               \o << "\n****** All removed Oncotree nodes must be manually deleted from Graphite" >>

\* the retained ids visited in sorted order
SortedComparison == compare_in_both(sorted(in_both_internal_ids), 1, << >>, << >>)

C11_Deterministic ==
    PromptReached =>
      /\ removed_internal_ids = RemovedIds
      /\ new_internal_ids = AddedIds
      /\ in_both_internal_ids = RetainedIds
      /\ Section(RemovedHeader, NewHeader) = SortedRemovedLines
      /\ Section(NewHeader, PrecursorsHeader) =
            OrNone(report_new(sorted(new_internal_ids), 1).stdout)
      /\ Section(PrecursorsHeader, RevocationsHeader) =
            OrNone(SortedLineageLines(precursor_id_to_internal_ids,
                       sorted(DOMAIN precursor_id_to_internal_ids), 1))
      /\ Section(RevocationsHeader, IdChangesHeader) =
            OrNone(SortedLineageLines(revocation_id_to_internal_ids,
                       sorted(DOMAIN revocation_id_to_internal_ids), 1))
      /\ Section(IdChangesHeader, CodeChangesHeader) = OrNone(SortedIdChangeLines)
      /\ code_change_messages = SortedComparison.code_change_messages
      /\ parent_change_messages = SortedComparison.parent_change_messages

----------------------------------------------------------------------------
(* C12: in a run that reaches the identity-change detection, a pair of a   *)
(* removed id r and an added id a is reported as a candidate r -> a if and *)
(* only if the original row of r and the modified row of a have the same   *)
(* value in every field other than the internal id, a field only one of    *)
(* the rows has counting as a difference; reporting never ends the run.    *)

OriginalRow(id) == CHOOSE row \in RowsOf(original_file) : row[INTERNAL_ID] = id

ModifiedRow(id) == CHOOSE row \in RowsOf(modified_file) : row[INTERNAL_ID] = id

\* the lines printed under the identity-change header
IdChangeSection ==
    SubSeq(stdout, line_index(IdChangesHeader) + 1,
           IF CodeChangesHeader \in Range(stdout)
           THEN line_index(CodeChangesHeader) - 1 ELSE Len(stdout))

CandidateLine(r, a) ==
    "\t'" \o r \o ": " \o OriginalRow(r)[LABEL] \o " (" \o OriginalRow(r)[ONCOTREE_CODE]
        \o ")' -> '" \o a \o ": " \o ModifiedRow(a)[LABEL] \o " ("
        \o ModifiedRow(a)[ONCOTREE_CODE] \o ")'"

CandidateReported(r, a) == CandidateLine(r, a) \in Range(IdChangeSection)

\* the same fields, with the same values, the internal id aside
SameRow(original_data, modified_data) ==
    without_column(original_data, INTERNAL_ID) = without_column(modified_data, INTERNAL_ID)

\* the same values in the fields both rows have, the internal id aside
SameInSharedFields(original_data, modified_data) ==
    \A c \in ((DOMAIN original_data) \cap (DOMAIN modified_data)) \ { INTERNAL_ID } :
       original_data[c] = modified_data[c]

C12_Original ==
    /\ ~EndedIn("id_changes")
    /\ Passed("id_changes") =>
         \A r \in RemovedIds, a \in AddedIds :
            CandidateReported(r, a) <=> SameRow(OriginalRow(r), ModifiedRow(a))

(* C12, amended: the candidate r -> a is reported if and only if the two   *)
(* rows have the same value in every field both of them have, the internal *)
(* id aside; a field only one of the rows has (the parent oncotree code of *)
(* the modified file) is not compared.                                     *)
C12_IdChanges ==
    /\ ~EndedIn("id_changes")
    /\ Passed("id_changes") =>
         \A r \in RemovedIds, a \in AddedIds :
            CandidateReported(r, a) <=> SameInSharedFields(OriginalRow(r), ModifiedRow(a))

C12_Witness ==
    /\ Passed("id_changes")
    /\ \E r \in RemovedIds, a \in AddedIds, b \in AddedIds :
          /\ CandidateReported(r, a)
          /\ ~SameRow(OriginalRow(r), ModifiedRow(a))
          /\ ~CandidateReported(r, b)
          /\ Len(IdChangeSection) = 1

----------------------------------------------------------------------------
(* C13: the stages run in a fixed order and the first fatal step ends the  *)
(* run; no precursor or revocation check is evaluated before the checks on *)
(* the resource uris of the added and retained ids have passed, and no     *)
(* part of the report is printed before lineage validation is over.        *)

ReportStarted == RemovedHeader \in Range(stdout)

EndedInLineage == EndedIn("precursors") \/ EndedIn("revocations")

C13_Original ==
    /\ EndedInLineage => ResourceUrisKept
    /\ ReportStarted => Passed("revocations")

AddedUrisEmpty ==
    \A m \in RowsOf(modified_file) : m[INTERNAL_ID] \in AddedIds => m[RESOURCE_URI] = ""

\* a step is taken by a running process only, to the next step of Steps or
\* to the end of the process
StepInOrder ==
    /\ exit_code = RUNNING
    /\ \/ exit_code' = RUNNING /\ step_index(pc') = step_index(pc) + 1
       \/ exit_code' # RUNNING /\ pc' \in { pc, "returned" }

\* what has been checked, and printed, by the time a step is reached
ChecksInOrder ==
    /\ Passed("validate_original") => PassesFirstScan(original_file, EXPECTED_HEADER)
    /\ Passed("validate_modified") =>
         PassesFirstScan(modified_file, EXPECTED_HEADER_MODIFIED_FILE)
    /\ ReportStarted => Passed("build_indexes")
    /\ Passed("new") => AddedUrisEmpty
    /\ Passed("revocations") => LineageConsistent
    /\ Passed("in_both") => ResourceUrisKept
    /\ CodeChangesHeader \in Range(stdout) => Passed("in_both")

(* C13, amended: the steps run in the order of the code (validation of the *)
(* original file, of the modified file, loading, removed ids, checks on    *)
(* the added ids, precursor checks, revocation checks, identity changes,   *)
(* checks on the retained ids, change lists, prompt) and the first fatal   *)
(* step ends the run: the lineage checks are evaluated after the checks on *)
(* the added ids and before those on the retained ids, and the removed and *)
(* added sections are printed before lineage validation.                   *)
C13_StepOrder == [][StepInOrder]_vars /\ []ChecksInOrder

C13_Witness ==
    /\ EndedIn("revocations")
    /\ ReportStarted
    /\ AddedIds # {} /\ AddedUrisEmpty
    /\ ~ResourceUrisKept

----------------------------------------------------------------------------
(* C14: when a row Y of the modified file lists X in its revocations and X *)
(* is an added id (in the modified file, not in the original), lineage     *)
(* validation fails with the error "only a pre-existing concept can        *)
(* revoke", with status 1.                                                 *)

\* the revocation checks have been evaluated, to their end or to an exit
RevocationsEvaluated == EndedIn("revocations") \/ Passed("revocations")

\* the rows of the modified file that list `id` in their revocations
Revoking(id) == { row[INTERNAL_ID] : row \in { r \in RowsOf(modified_file) :
                                                id \in ListedIn(r, REVOCATIONS) } }

C14_Original ==
    (RevocationsEvaluated /\ AllListed(REVOCATIONS) \cap AddedIds # {}) =>
      EndedIn("revocations") /\ exit_code = 1 /\ error.kind = "revoked_by_new"

(* C14, amended: when X is an added id, lineage validation fails with      *)
(* status 1 and the error for X is "still in this file as a current        *)
(* record"; "only a pre-existing concept can revoke" is the error when the *)
(* row Y that lists X is itself an added row, X being neither a row of the *)
(* modified file nor a precursor.                                          *)
C14_Revocations ==
    /\ (RevocationsEvaluated /\ AllListed(REVOCATIONS) \cap AddedIds # {}) =>
         EndedIn("revocations") /\ exit_code = 1
    /\ \A X \in AllListed(REVOCATIONS) :
         (RevocationsEvaluated /\ AllListed(REVOCATIONS) = { X }) =>
           /\ X \in AddedIds =>
                error.kind = "revocation_is_current" /\ error.id = X
           /\ (/\ X \notin IdsOf(modified_file)
               /\ X \notin AllListed(PRECURSORS)
               /\ Revoking(X) \cap AddedIds # {}) =>
                /\ EndedIn("revocations") /\ exit_code = 1
                /\ error.kind = "revoked_by_new"
                /\ error.id \in Revoking(X) \cap AddedIds

C14_Witness ==
    /\ EndedIn("revocations")
    /\ error.kind = "revocation_is_current"
    /\ error.id \in AddedIds
    /\ Revoking(error.id) \cap RetainedIds # {}

----------------------------------------------------------------------------
(* C15: for two valid files that both have the root (the row with code     *)
(* TISSUE and empty parent fields) under the same internal id, whatever    *)
(* the id, no parent is resolved for the root: its empty parent fields end *)
(* no run and give no parent-change entry.                                 *)

IsRoot(row) ==
    /\ row[ONCOTREE_CODE] = "TISSUE"
    /\ \A column \in { PARENT_RESOURCE_URI, PARENT_LABEL, PARENT_ONCOTREE_CODE } :
          column \in DOMAIN row => row[column] = ""

\* the ids under which both files have the root
RetainedRootIds ==
    { id \in RetainedIds : IsRoot(OriginalRow(id)) /\ IsRoot(ModifiedRow(id)) }

ParentResolutionErrors ==
    { "parent_required", "parent_code_not_found", "KeyError", "no_code_for_internal_id" }

\* a parent-change entry whose child is `id`
IsParentChangeOf(message, id) ==
    LET prefix == "\tchild: '" \o id \o ": "
    IN  Len(message) >= Len(prefix) /\ SubSeq(message, 1, Len(prefix)) = prefix

C15_RootExempt ==
    (/\ Valid(original_file, EXPECTED_HEADER)
     /\ Valid(modified_file, EXPECTED_HEADER_MODIFIED_FILE)) =>
       /\ EndedIn("in_both") =>
            ~(error.id \in RetainedRootIds /\ error.kind \in ParentResolutionErrors)
       /\ Passed("in_both") =>
            \A id \in RetainedRootIds : \A k \in DOMAIN parent_change_messages :
               ~IsParentChangeOf(parent_change_messages[k], id)

====
